---- MODULE Spec2Model ----
(***************************************************************************)
(* Contract-driven mock HTTP server with provider-state-aware routing      *)
(* (mock-server.js): StateManager, RouteBuilder and Server.                *)
(*                                                                         *)
(* Strings that the code only compares for equality (state names, bodies)  *)
(* are TLA+ strings.  Strings the code takes apart (paths, route keys) are *)
(* sequences of tokens, so that split(":") and startsWith are computed.    *)
(* JavaScript values that may be undefined/null are tagged records.        *)
(***************************************************************************)
EXTENDS Naturals, Sequences, FiniteSets, Bags, TLC

\* ------------------------------------------------------------------ bounds
\* interactions in the loaded contract
MaxInteractions == 2
\* set-state requests whose body is still streaming
MaxInflight == 1
\* set-state bodies streaming at once, and control events followed, under OverlapSpec
MaxOverlap == 2
MaxEffects == 4
MaxEntries == 2

\* ------------------------------------------------------- JavaScript values
Undefined == [t |-> "undefined"]
Null == [t |-> "null"]
\* a string compared only as a whole
Name(n) == [t |-> "string", v |-> n]
\* a string as a sequence of tokens
Chars(p) == [t |-> "chars", v |-> p]
Arr(a) == [t |-> "array", v |-> a]
Num(n) == [t |-> "number", v |-> n]
Obj(o) == [t |-> "object", v |-> o]

\* JavaScript truthiness (if (x), x || y, x ? a : b)
Truthy(x) ==
  CASE x.t = "string" -> x.v # ""
    [] x.t = "chars" -> Len(x.v) > 0
    [] x.t = "number" -> x.v # 0
    [] x.t = "array" -> TRUE
    [] x.t = "object" -> TRUE
    [] OTHER -> FALSE

\* String.prototype.startsWith on token sequences
StartsWith(s, p) == Len(p) <= Len(s) /\ SubSeq(s, 1, Len(p)) = p

\* String.prototype.toUpperCase on a method token
ToUpperCase(m) ==
  CASE m = "get" -> "GET"
    [] m = "post" -> "POST"
    [] m = "options" -> "OPTIONS"
    [] OTHER -> m

\* Array.prototype.filter is Sequences!SelectSeq

\* String.prototype.split(":"): the pieces between the ":" tokens
RECURSIVE SplitColon(_)
SplitColon(s) ==
  IF s = <<>> THEN << <<>> >>
  ELSE LET rest == SplitColon(Tail(s))
       IN  IF Head(s) = ":" THEN << <<>> >> \o rest
           ELSE << <<Head(s)>> \o Head(rest) >> \o Tail(rest)

SeqsUpTo(S, n) == UNION {[1..k -> S] : k \in 0..n}

\* ---------------------------------------------------------------- inputs
OrdersPath == <<"/api", "/v1", "/orders">>
ProductsPath == <<"/api", "/v1", "/products">>
BatchPath == <<"/api", "/v1", "/orders", ":", "batch">>
OtherPath == <<"/api", "/v1", "/other">>
StateUrl == <<"/api", "/mock-server", "/state">>
ResetUrl == <<"/api", "/mock-server", "/reset">>

\* CONFIG.contentType
ContentType == "application/json"
DefaultHeaders == Obj([ContentType |-> ContentType])

\* Provider-state declarations of a recorded interaction: none, the single
\* name field, or the list of name-bearing objects.
StateShapeOf(n) ==
  CASE n = "none" -> [providerState |-> Undefined, providerStates |-> Undefined]
    [] n = "s1" -> [providerState |-> Name("s1"), providerStates |-> Undefined]
    [] n = "s2" -> [providerState |-> Undefined,
                    providerStates |-> Arr(<<[name |-> Name("s2")]>>)]

\* A recorded interaction without its body; the body is given by position.
InteractionShapes ==
  { [path |-> BatchPath, shape |-> StateShapeOf("none"), status |-> 500],
    [path |-> BatchPath, shape |-> StateShapeOf("s1"), status |-> 200],
    [path |-> BatchPath, shape |-> StateShapeOf("s2"), status |-> 500],
    [path |-> ProductsPath, shape |-> StateShapeOf("none"), status |-> 200] }

BodyAt(i) == CASE i = 1 -> "b1" [] i = 2 -> "b2" [] i = 3 -> "b3" [] OTHER -> "b4"

MkInteraction(x, i) ==
  [ providerState |-> x.shape.providerState,
    providerStates |-> x.shape.providerStates,
    state |-> Undefined,
    request |-> [method |-> "GET", path |-> x.path],
    response |-> [status |-> Num(x.status), headers |-> Undefined, body |-> BodyAt(i)] ]

\* The contracts ContractLoader.loadContracts returns: none, or one contract
\* file with up to MaxInteractions interactions.
ContractInputs ==
  { <<>> } \cup
  { << [interactions |-> [i \in DOMAIN xs |-> MkInteraction(xs[i], i)]] >> :
      xs \in SeqsUpTo(InteractionShapes, MaxInteractions) }

\* CONFIG.pactsDir when the directory does not exist
Missing == [exists |-> FALSE, entries |-> <<>>]

\* CONFIG.pactsDir listing the given entries, in readdirSync order
Listing(entries) == [exists |-> TRUE, entries |-> entries]

\* a provider directory holding one parsable .json file per contract
ProviderOf(cs) ==
  [ stat |-> "dir", readable |-> TRUE,
    files |-> [i \in DOMAIN cs |-> [json |-> TRUE, parses |-> TRUE, contract |-> cs[i]]] ]

\* pacts directories whose every entry loads: one provider directory
PlainDirs == {Missing} \cup { Listing(<<ProviderOf(cs)>>) : cs \in ContractInputs }

ProductsContract ==
  [ interactions |->
      << MkInteraction([ path |-> ProductsPath, shape |-> StateShapeOf("none"),
                         status |-> 200 ], 1) >> ]
BatchContract ==
  [ interactions |->
      << MkInteraction([ path |-> BatchPath, shape |-> StateShapeOf("s1"),
                         status |-> 200 ], 2) >> ]

\* a recorded interaction lacking its request, its method or its response
Lacking(field) ==
  LET whole == MkInteraction([ path |-> ProductsPath, shape |-> StateShapeOf("none"),
                               status |-> 200 ], 2)
  IN  CASE field = "request" ->
             [f \in (DOMAIN whole) \ {"request"} |-> whole[f]]
        [] field = "method" ->
             [whole EXCEPT !.request = [path |-> ProductsPath]]
        [] field = "response" ->
             [f \in (DOMAIN whole) \ {"response"} |-> whole[f]]

\* a parsable contract file whose second interaction lacks the given field
LackingContract(field) ==
  [interactions |-> ProductsContract.interactions \o <<Lacking(field)>>]

\* a provider directory holding such a file
LackingProvider(field) ==
  [ stat |-> "dir", readable |-> TRUE,
    files |-> <<[json |-> TRUE, parses |-> TRUE, contract |-> LackingContract(field)]>> ]

\* the kinds of entry readdirSync(pactsDir) can list: an entry statSync fails
\* on, a plain file, a directory readdirSync fails on, a directory with an
\* unparsable file before a good one, a directory with a non-.json file
\* before a good one
EntryShapes ==
  { [stat |-> "error"],
    [stat |-> "file"],
    [ stat |-> "dir", readable |-> FALSE,
      files |-> <<[json |-> TRUE, parses |-> TRUE, contract |-> ProductsContract]>> ],
    [ stat |-> "dir", readable |-> TRUE,
      files |-> << [json |-> TRUE, parses |-> FALSE, contract |-> Undefined],
                   [json |-> TRUE, parses |-> TRUE, contract |-> ProductsContract] >> ],
    [ stat |-> "dir", readable |-> TRUE,
      files |-> << [json |-> FALSE, parses |-> TRUE, contract |-> ProductsContract],
                   [json |-> TRUE, parses |-> TRUE, contract |-> BatchContract] >> ] }
  \cup { LackingProvider(field) : field \in {"request", "method", "response"} }

\* pacts directories with entries that fail to load
FailingDirs ==
  {Missing} \cup { Listing(entries) : entries \in SeqsUpTo(EntryShapes, MaxEntries) }

\* The custom route the repository ships.
ShippedCustomRoute ==
  [ method |-> "GET", path |-> ProductsPath,
    state |-> Name("get products error out"),
    response |-> [status |-> Num(500), headers |-> DefaultHeaders, body |-> "c1"] ]

\* A custom route with no state (the format makes `state` optional).
NoStateCustomRoute ==
  [ method |-> "get", path |-> BatchPath,
    state |-> Undefined,
    response |-> [status |-> Num(200), headers |-> Undefined, body |-> "c2"] ]

\* A custom route claiming a state that contracts may claim too.
StatefulCustomRoute ==
  [ method |-> "GET", path |-> BatchPath,
    state |-> Name("s1"),
    response |-> [status |-> Num(500), headers |-> Undefined, body |-> "c3"] ]

\* Values of the CUSTOM_ROUTES configuration section.
CustomRouteInputs ==
  { << ShippedCustomRoute >>,
    << ShippedCustomRoute, NoStateCustomRoute >>,
    << ShippedCustomRoute, StatefulCustomRoute >> }

\* Custom routes for the key of BatchPath, with and without a state, 2xx and not.
NoStateFailingCustomRoute ==
  [ method |-> "GET", path |-> BatchPath,
    state |-> Undefined,
    response |-> [status |-> Num(500), headers |-> Undefined, body |-> "c4"] ]

StatefulSuccessCustomRoute ==
  [ method |-> "GET", path |-> BatchPath,
    state |-> Name("s1"),
    response |-> [status |-> Num(200), headers |-> Undefined, body |-> "c5"] ]

\* CUSTOM_ROUTES sections competing with the contracts of PrecedenceDirs
PrecedenceCustomRoutes ==
  { <<>>,
    << NoStateCustomRoute >>,
    << NoStateFailingCustomRoute >>,
    << StatefulCustomRoute >>,
    << StatefulSuccessCustomRoute >>,
    << StatefulSuccessCustomRoute, NoStateCustomRoute >> }

\* Contract interactions for the key of BatchPath: no state or s2, 2xx or not.
PrecedenceShapes ==
  { [path |-> BatchPath, shape |-> StateShapeOf(n), status |-> st] :
      n \in {"none", "s2"}, st \in {200, 500} }

\* pacts directories with one contract file of such interactions
PrecedenceDirs ==
  { Listing(<<ProviderOf(<<[interactions |->
                              [i \in DOMAIN xs |-> MkInteraction(xs[i], i)]]>>)>>) :
      xs \in SeqsUpTo(PrecedenceShapes, MaxInteractions) }

\* The ways an interaction declares the name s1, or no name.
DeclarationOf(n) ==
  CASE n = "single" -> [providerState |-> Name("s1"), providerStates |-> Undefined]
    [] n = "list" -> [providerState |-> Undefined,
                      providerStates |-> Arr(<<[name |-> Name("s1")]>>)]
    [] n = "list after nameless" ->
         [providerState |-> Undefined,
          providerStates |-> Arr(<<[name |-> Undefined], [name |-> Name("s1")]>>)]
    [] n = "nameless" -> [providerState |-> Undefined,
                          providerStates |-> Arr(<<[name |-> Undefined]>>)]
    [] n = "empty list" -> [providerState |-> Undefined, providerStates |-> Arr(<<>>)]
    [] n = "none" -> [providerState |-> Undefined, providerStates |-> Undefined]

DeclarationShapes ==
  { [path |-> ProductsPath, shape |-> DeclarationOf(n), status |-> 200] :
      n \in {"single", "list", "list after nameless", "nameless", "empty list", "none"} }

\* pacts directories with one contract file of such interactions
DeclarationDirs ==
  { Listing(<<ProviderOf(<<[interactions |->
                              [i \in DOMAIN xs |-> MkInteraction(xs[i], i)]]>>)>>) :
      xs \in SeqsUpTo(DeclarationShapes, MaxInteractions) }

\* ----------------------------------------------------------- utilities
createRouteKey(method, path) == <<ToUpperCase(method), ":">> \o path

createRouteConfig(response) ==
  [ status |-> IF Truthy(response.status) THEN response.status.v ELSE 200,
    headers |-> IF Truthy(response.headers) THEN response.headers ELSE DefaultHeaders,
    body |-> response.body ]

IsSuccess(opt) == opt.routeConfig.status >= 200 /\ opt.routeConfig.status < 300

\* options.find(2xx): the found option, as a sequence of length 0 or 1
findSuccessRoute(options) ==
  LET hits == SelectSeq(options, IsSuccess)
  IN  IF hits = <<>> THEN <<>> ELSE <<Head(hits)>>

HasNoState(opt) == Len(opt.states) = 0

findNoStateRoutes(options) == SelectSeq(options, HasNoState)

RECURSIVE NamesOf(_)
NamesOf(objs) ==
  IF objs = <<>> THEN <<>>
  ELSE (IF Truthy(Head(objs).name) THEN <<Head(objs).name.v>> ELSE <<>>)
       \o NamesOf(Tail(objs))

\* extractStates reading the single-name fields only
extractStatesSingleOnly(interaction) ==
  (IF Truthy(interaction.providerState) THEN <<interaction.providerState.v>> ELSE <<>>)
  \o (IF Truthy(interaction.state) THEN <<interaction.state.v>> ELSE <<>>)

extractStates(interaction) ==
  (IF Truthy(interaction.providerState) THEN <<interaction.providerState.v>> ELSE <<>>)
  \o (IF interaction.providerStates.t = "array" /\ Len(interaction.providerStates.v) > 0
      THEN NamesOf(interaction.providerStates.v) ELSE <<>>)
  \o (IF Truthy(interaction.state) THEN <<interaction.state.v>> ELSE <<>>)

Range(s) == {s[i] : i \in DOMAIN s}

\* ------------------------------------------------------------- variables
VARIABLES
  pc,              \* "starting" | "listening" | "crashed" (startMockServer)
  pactsDir,        \* the directory CONFIG.pactsDir names
  thrown,          \* the error startMockServer threw, if any
  trip,            \* progress of a set, reset, set sequence of calls, and the
                   \* control requests in the order they arrived and ended
  contracts,       \* what ContractLoader.loadContracts returns
  CUSTOM_ROUTES,   \* the custom routes section
  routes,          \* the flat map buildRoutes returns
  availableStates, \* StateManager.availableStates
  customStates,    \* StateManager.customStates
  contractStates,  \* StateManager.contractStates
  stateRoutes,     \* StateManager.stateRoutes
  currentStates,   \* StateManager.currentStates
  currentPath,     \* StateManager.currentPath
  inflight,        \* bodies of set-state requests still streaming (_parseBody)
  res              \* the response written last

tableVars == <<pactsDir, thrown, contracts, CUSTOM_ROUTES, routes, availableStates,
               customStates, contractStates, stateRoutes>>
registryVars == <<currentStates, currentPath>>
vars == <<pc, pactsDir, thrown, trip, contracts, CUSTOM_ROUTES, routes, availableStates,
          customStates, contractStates, stateRoutes, currentStates, currentPath,
          inflight, res>>

\* No response written yet.
NoResponse == [status |-> 0, kind |-> "none"]

\* --------------------------------------------------------- route building
EmptyTable ==
  [ routes |-> <<>>, availableStates |-> {}, customStates |-> {},
    contractStates |-> {}, stateRoutes |-> <<>> ]

Put(map, key, value) == [k \in DOMAIN map \cup {key} |-> IF k = key THEN value ELSE map[k]]

\* StateManager.addRoute, on the table under construction
addRoute(tb, routeKey, interaction, routeConfig, isCustom) ==
  LET states == extractStates(interaction)
      before == IF routeKey \in DOMAIN tb.stateRoutes THEN tb.stateRoutes[routeKey] ELSE <<>>
  IN  [ tb EXCEPT
          !.availableStates = @ \cup Range(states),
          !.customStates = IF isCustom THEN @ \cup Range(states) ELSE @,
          !.contractStates = IF isCustom THEN @ ELSE @ \cup Range(states),
          !.stateRoutes = Put(@, routeKey,
              Append(before, [routeConfig |-> routeConfig, states |-> states,
                              isCustom |-> isCustom])) ]

\* _processInteraction throws a TypeError: request.method.toUpperCase() on a
\* missing request or method, response.status on a missing response
throwsTypeError(interaction) ==
  \/ "request" \notin DOMAIN interaction
  \/ "method" \notin DOMAIN interaction.request
  \/ "response" \notin DOMAIN interaction

\* buildRoutes meets an interaction that throws
throwsIn(cs) ==
  \E c \in DOMAIN cs : \E i \in DOMAIN cs[c].interactions :
    throwsTypeError(cs[c].interactions[i])

\* the TypeError leaving startMockServer
TypeError == [message |-> "Cannot read properties of undefined", conflicts |-> {}]

\* RouteBuilder._processInteraction
processInteraction(tb, interaction, isCustom) ==
  LET routeKey == createRouteKey(ToUpperCase(interaction.request.method),
                                 interaction.request.path)
      routeConfig == createRouteConfig(interaction.response)
  IN  addRoute([tb EXCEPT !.routes = Put(@, routeKey, routeConfig)],
               routeKey, interaction, routeConfig, isCustom)

\* a custom route written to the flat map only, never given to addRoute
processCustomRouteFlatOnly(tb, customRoute) ==
  LET routeKey == createRouteKey(customRoute.method, customRoute.path)
      routeConfig == createRouteConfig(customRoute.response)
  IN  [tb EXCEPT !.routes = Put(@, routeKey, routeConfig)]

\* RouteBuilder._processCustomRoutes, one custom route
processCustomRoute(tb, customRoute) ==
  LET routeKey == createRouteKey(customRoute.method, customRoute.path)
      routeConfig == createRouteConfig(customRoute.response)
      mockInteraction ==
        [ state |-> IF Truthy(customRoute.state) THEN customRoute.state ELSE Null,
          providerState |-> Undefined,
          providerStates |-> Undefined,
          request |-> [method |-> ToUpperCase(customRoute.method), path |-> customRoute.path],
          response |-> customRoute.response ]
  IN  addRoute([tb EXCEPT !.routes = Put(@, routeKey, routeConfig)],
               routeKey, mockInteraction, routeConfig, TRUE)

RECURSIVE processInteractions(_, _)
processInteractions(tb, interactions) ==
  IF interactions = <<>> \/ throwsTypeError(Head(interactions)) THEN tb
  ELSE processInteractions(processInteraction(tb, Head(interactions), FALSE),
                           Tail(interactions))

RECURSIVE processContracts(_, _)
processContracts(tb, cs) ==
  IF cs = <<>> THEN tb
  ELSE IF throwsIn(<<Head(cs)>>) THEN processInteractions(tb, Head(cs).interactions)
  ELSE processContracts(processInteractions(tb, Head(cs).interactions), Tail(cs))

RECURSIVE processCustomRoutes(_, _)
processCustomRoutes(tb, crs) ==
  IF crs = <<>> THEN tb
  ELSE processCustomRoutes(processCustomRoute(tb, Head(crs)), Tail(crs))

\* validateNoConflicts comparing each custom variant with the first contract
\* variant of the key only
ConflictsFirstContractOnly(sr) ==
  { [route |-> k, conflictingStates |-> Range(c.states) \cap Range(d.states)] :
      <<k, c, d>> \in
        { <<k, c, d>> \in
            UNION { {k} \X Range(sr[k]) \X Range(sr[k]) : k \in DOMAIN sr } :
            /\ c.isCustom /\ ~d.isCustom
            /\ d = sr[k][CHOOSE i \in DOMAIN sr[k] :
                           /\ ~sr[k][i].isCustom
                           /\ \A j \in 1..(i - 1) : sr[k][j].isCustom]
            /\ Range(c.states) \cap Range(d.states) # {} } }

\* StateManager.validateNoConflicts: the conflicts it collects
Conflicts(sr) ==
  { [route |-> k, conflictingStates |-> Range(c.states) \cap Range(d.states)] :
      <<k, c, d>> \in
        { <<k, c, d>> \in
            UNION { {k} \X Range(sr[k]) \X Range(sr[k]) : k \in DOMAIN sr } :
            c.isCustom /\ ~d.isCustom /\ Range(c.states) \cap Range(d.states) # {} } }

\* the Error validateNoConflicts throws
ConflictError(conflicts) ==
  [ message |-> "Custom route conflicts detected", conflicts |-> conflicts ]

\* ------------------------------------------------------- contract loading
\* ContractLoader._loadContractFile over the files of a directory, in order
RECURSIVE loadContractFiles(_)
loadContractFiles(files) ==
  IF files = <<>> THEN <<>>
  ELSE LET file == Head(files)
       IN  (IF file.json /\ file.parses THEN <<file.contract>> ELSE <<>>)
           \o loadContractFiles(Tail(files))

\* ContractLoader._loadFromProvider: a failing readdirSync loads nothing
loadFromProvider(provider) ==
  IF provider.readable THEN loadContractFiles(provider.files) ELSE <<>>

\* the forEach of loadContracts: a failing statSync throws out of the loop
RECURSIVE loadProviderDirs(_)
loadProviderDirs(providerDirs) ==
  IF providerDirs = <<>> THEN <<>>
  ELSE LET providerDir == Head(providerDirs)
       IN  IF providerDir.stat = "error" THEN <<>>
           ELSE (IF providerDir.stat = "dir" THEN loadFromProvider(providerDir) ELSE <<>>)
                \o loadProviderDirs(Tail(providerDirs))

\* ContractLoader.loadContracts
loadContracts(dir) == IF ~dir.exists THEN <<>> ELSE loadProviderDirs(dir.entries)

\* RouteBuilder.buildRoutes, up to the conflict check
buildRoutes(cs, crs) ==
  IF throwsIn(cs) THEN processContracts(EmptyTable, cs)
  ELSE processCustomRoutes(processContracts(EmptyTable, cs), crs)

\* --------------------------------------------------------------- startup
\* no set, reset, set sequence has begun
NoTrip == [step |-> "none", selected |-> FALSE, state |-> "", first |-> <<>>,
           effects |-> <<>>]

\* what Init and InitLoad share: nothing loaded, nothing selected
Fresh ==
  /\ pc = "starting"
  /\ thrown = Null
  /\ trip = NoTrip
  /\ contracts = <<>>
  /\ routes = <<>>
  /\ availableStates = {}
  /\ customStates = {}
  /\ contractStates = {}
  /\ stateRoutes = <<>>
  /\ currentStates = <<>>
  /\ currentPath = Null
  /\ inflight = EmptyBag
  /\ res = NoResponse

Init ==
  /\ pactsDir \in PlainDirs
  /\ CUSTOM_ROUTES \in CustomRouteInputs
  /\ Fresh

\* contracts and custom routes competing for one key, and contracts
\* declaring a state in every shape
InitVariants ==
  /\ \/ pactsDir \in PrecedenceDirs /\ CUSTOM_ROUTES \in PrecedenceCustomRoutes
     \/ pactsDir \in DeclarationDirs /\ CUSTOM_ROUTES = <<ShippedCustomRoute>>
  /\ Fresh

\* the shipped custom routes over pacts directories with failing entries
InitLoad ==
  /\ pactsDir \in FailingDirs
  /\ CUSTOM_ROUTES = <<ShippedCustomRoute>>
  /\ Fresh

\* startMockServer: load, build, validate, listen
startMockServer ==
  /\ pc = "starting"
  /\ LET loaded == loadContracts(pactsDir)
         tb == buildRoutes(loaded, CUSTOM_ROUTES)
         conflicts == Conflicts(tb.stateRoutes)
     IN  /\ contracts' = loaded
         /\ routes' = tb.routes
         /\ availableStates' = tb.availableStates
         /\ customStates' = tb.customStates
         /\ contractStates' = tb.contractStates
         /\ stateRoutes' = tb.stateRoutes
         /\ thrown' = IF throwsIn(loaded) THEN TypeError
                      ELSE IF conflicts # {} THEN ConflictError(conflicts) ELSE Null
         /\ pc' = IF throwsIn(loaded) \/ conflicts # {} THEN "crashed" ELSE "listening"
  /\ UNCHANGED <<pactsDir, trip, CUSTOM_ROUTES, currentStates, currentPath, inflight, res>>

\* ------------------------------------------------------- state registry
\* setStates without the availableStates check: every requested name is stored
setStatesUnfiltered(states, path) ==
  [ currentStates |-> states,
    currentPath |-> IF path = Undefined THEN Null ELSE path,
    result |-> [ warnings |-> <<>>, validStates |-> states,
                 availableStates |-> availableStates ] ]

\* setStates adding to the previous selection and keeping an omitted scope
setStatesAdditive(states, path) ==
  LET known(state) == state \in availableStates
      unknown(state) == state \notin availableStates
      warning(state) == state \o " not found in contracts or custom routes"
      rejected == SelectSeq(states, unknown)
      validStates == SelectSeq(states, known)
  IN  [ currentStates |-> currentStates \o validStates,
        currentPath |-> IF path = Undefined THEN currentPath ELSE path,
        result |-> [ warnings |-> [i \in DOMAIN rejected |-> warning(rejected[i])],
                     validStates |-> validStates,
                     availableStates |-> availableStates ] ]

\* setStates leaving the selection alone when it rejects every name
setStatesKeepsOnAllRejected(states, path) ==
  LET known(state) == state \in availableStates
      unknown(state) == state \notin availableStates
      warning(state) == state \o " not found in contracts or custom routes"
      rejected == SelectSeq(states, unknown)
      validStates == SelectSeq(states, known)
  IN  [ currentStates |-> IF validStates = <<>> THEN currentStates ELSE validStates,
        currentPath |-> IF validStates = <<>> THEN currentPath
                        ELSE IF path = Undefined THEN Null ELSE path,
        result |-> [ warnings |-> [i \in DOMAIN rejected |-> warning(rejected[i])],
                     validStates |-> validStates,
                     availableStates |-> availableStates ] ]

\* setStates merging the valid names into the selection it finds
setStatesMerging(states, path) ==
  LET known(state) == state \in availableStates
      unknown(state) == state \notin availableStates
      fresh(state) == state \in availableStates /\ state \notin Range(currentStates)
      warning(state) == state \o " not found in contracts or custom routes"
      rejected == SelectSeq(states, unknown)
      validStates == SelectSeq(states, known)
  IN  [ currentStates |-> currentStates \o SelectSeq(states, fresh),
        currentPath |-> IF path = Undefined THEN Null ELSE path,
        result |-> [ warnings |-> [i \in DOMAIN rejected |-> warning(rejected[i])],
                     validStates |-> validStates,
                     availableStates |-> availableStates ] ]

\* setStates whose scope assignment is lost: the old scope stays with the new states
setStatesKeepsScope(states, path) ==
  LET known(state) == state \in availableStates
      unknown(state) == state \notin availableStates
      warning(state) == state \o " not found in contracts or custom routes"
      rejected == SelectSeq(states, unknown)
      validStates == SelectSeq(states, known)
  IN  [ currentStates |-> validStates,
        currentPath |-> currentPath,
        result |-> [ warnings |-> [i \in DOMAIN rejected |-> warning(rejected[i])],
                     validStates |-> validStates,
                     availableStates |-> availableStates ] ]

\* StateManager.setStates: the new registry fields and the returned result
setStates(states, path) ==
  LET known(state) == state \in availableStates
      unknown(state) == state \notin availableStates
      warning(state) == state \o " not found in contracts or custom routes"
      rejected == SelectSeq(states, unknown)
      validStates == SelectSeq(states, known)
  IN  [ currentStates |-> validStates,
        currentPath |-> IF path = Undefined THEN Null ELSE path,
        result |-> [ warnings |-> [i \in DOMAIN rejected |-> warning(rejected[i])],
                     validStates |-> validStates,
                     availableStates |-> availableStates ] ]

\* reset clearing the scope but not the active states
resetScopeOnly == [currentStates |-> currentStates, currentPath |-> Null]

\* reset clearing one field per call: the scope if one is set, else the states
resetOneField ==
  [ currentStates |-> IF currentPath # Null THEN currentStates ELSE <<>>,
    currentPath |-> Null ]

\* StateManager.reset: the new registry fields
reset == [currentStates |-> <<>>, currentPath |-> Null]

\* ------------------------------------------------------- matching engine
\* options.find(option => option.states.includes(currentState))
FindDeclaring(options, currentState) ==
  LET declares(option) == currentState \in Range(option.states)
      hits == SelectSeq(options, declares)
  IN  IF hits = <<>> THEN <<>> ELSE <<Head(hits)>>

\* default selection over all variants in registration order, whatever their
\* origin: the no-state ones if any, the first 2xx of them or else the first
getDefaultRouteByRegistration(options) ==
  LET eligible == IF findNoStateRoutes(options) # <<>> THEN findNoStateRoutes(options)
                  ELSE options
  IN  IF findSuccessRoute(eligible) # <<>> THEN findSuccessRoute(eligible)[1].routeConfig
      ELSE eligible[1].routeConfig

\* StateManager._getDefaultRoute
getDefaultRoute(options) ==
  LET isContract(opt) == ~opt.isCustom
      isCustomOpt(opt) == opt.isCustom
      contractOptions == SelectSeq(options, isContract)
      customOptions == SelectSeq(options, isCustomOpt)
      fromOrigin(opts) ==
        \* the choice within one origin, as a sequence of length 0 or 1
        IF Len(opts) > 0
        THEN LET noStateOptions == findNoStateRoutes(opts)
             IN  IF Len(noStateOptions) > 0
                 THEN IF findSuccessRoute(noStateOptions) # <<>>
                      THEN <<findSuccessRoute(noStateOptions)[1].routeConfig>>
                      ELSE <<noStateOptions[1].routeConfig>>
                 ELSE IF findSuccessRoute(opts) # <<>>
                      THEN <<findSuccessRoute(opts)[1].routeConfig>>
                      ELSE <<>>
        ELSE <<>>
  IN  IF fromOrigin(contractOptions) # <<>> THEN fromOrigin(contractOptions)[1]
      ELSE IF fromOrigin(customOptions) # <<>> THEN fromOrigin(customOptions)[1]
      ELSE options[1].routeConfig

\* the for loop of findRoute over the active states, in priority order
RECURSIVE MatchStates(_, _)
MatchStates(options, states) ==
  IF states = <<>> THEN <<>>
  ELSE IF FindDeclaring(options, Head(states)) # <<>>
       THEN <<FindDeclaring(options, Head(states))[1].routeConfig>>
       ELSE MatchStates(options, Tail(states))

\* findRoute without the scope check
findRouteIgnoringScope(sr, states, path, routeKey) ==
  IF routeKey \notin DOMAIN sr THEN Null
  ELSE IF MatchStates(sr[routeKey], states) # <<>>
       THEN MatchStates(sr[routeKey], states)[1]
       ELSE getDefaultRoute(sr[routeKey])

\* findRoute answering with the first variant when active states match nothing
findRouteFirstOnMiss(sr, states, path, routeKey) ==
  IF routeKey \notin DOMAIN sr THEN Null
  ELSE LET options == sr[routeKey]
           routePath == SplitColon(routeKey)[2]
       IN  IF Len(states) > 0
           THEN IF Truthy(path) /\ ~StartsWith(routePath, path.v)
                THEN getDefaultRoute(options)
                ELSE IF MatchStates(options, states) # <<>>
                     THEN MatchStates(options, states)[1]
                     ELSE options[1].routeConfig
           ELSE getDefaultRoute(options)

\* StateManager.findRoute against a registry value
findRouteWith(sr, states, path, routeKey) ==
  IF routeKey \notin DOMAIN sr THEN Null
  ELSE LET options == sr[routeKey]
           routePath == SplitColon(routeKey)[2]
       IN  IF Len(states) > 0
           THEN IF Truthy(path) /\ ~StartsWith(routePath, path.v)
                THEN getDefaultRoute(options)
                ELSE IF MatchStates(options, states) # <<>>
                     THEN MatchStates(options, states)[1]
                     ELSE getDefaultRoute(options)
           ELSE getDefaultRoute(options)

\* StateManager.findRoute
findRoute(routeKey) == findRouteWith(stateRoutes, currentStates, currentPath, routeKey)

\* ------------------------------------------------------------- requests
NoFields == [state |-> Undefined, states |-> Undefined, path |-> Undefined]

\* Bodies of POST /api/mock-server/state requests
SetStateBodies ==
  { [json |-> TRUE, data |-> d] : d \in
      { [NoFields EXCEPT !.states = Arr(<<"s1", "s2">>)],
        [NoFields EXCEPT !.states = Arr(<<"s2", "s1">>), !.path = Chars(BatchPath)],
        [NoFields EXCEPT !.state = Name("get products error out"),
                         !.path = Chars(OrdersPath)],
        [NoFields EXCEPT !.states = Arr(<<"nonexistent state", "s2">>)],
        NoFields } }
  \cup { [json |-> FALSE, data |-> Undefined] }

Methods == {"GET", "POST", "DELETE", "OPTIONS"}
\* a path one segment longer than a recorded one
ProductTwoPath == ProductsPath \o <<"/2">>

Urls == {ProductsPath, ProductTwoPath, BatchPath, OrdersPath, OtherPath, StateUrl, ResetUrl}

\* _isStateAPI recognising the state path only
isStateAPIStateOnly(req) == req.url = StateUrl

\* Server._isStateAPI
isStateAPI(req) == req.url = StateUrl \/ req.url = ResetUrl

\* the 200 response always carrying the warnings and availableStates fields
SetStateResponseAlways(result) ==
  [ status |-> 200, kind |-> "state",
    message |-> "Provider state(s) set with warnings",
    validStates |-> result.validStates,
    warnings |-> result.warnings,
    availableStates |-> result.availableStates ]

\* the response rejecting a request none of whose names is known
SetStateResponseRejecting(result) ==
  IF Len(result.validStates) = 0
  THEN [ status |-> 400, kind |-> "state", error |-> "Invalid provider state(s)",
         availableStates |-> result.availableStates ]
  ELSE IF Len(result.warnings) > 0
  THEN [ status |-> 200, kind |-> "state",
         message |-> "Provider state(s) set with warnings",
         validStates |-> result.validStates,
         warnings |-> result.warnings,
         availableStates |-> result.availableStates ]
  ELSE [ status |-> 200, kind |-> "state",
         message |-> "Provider state(s) set successfully",
         validStates |-> result.validStates ]

\* the body of the 200 response of _handleSetState
SetStateResponse(result) ==
  IF Len(result.warnings) > 0
  THEN [ status |-> 200, kind |-> "state",
         message |-> "Provider state(s) set with warnings",
         validStates |-> result.validStates,
         warnings |-> result.warnings,
         availableStates |-> result.availableStates ]
  ELSE [ status |-> 200, kind |-> "state",
         message |-> "Provider state(s) set successfully",
         validStates |-> result.validStates ]

\* the OPTIONS branch placed after the state API check
HandleOptionsAfterStateAPI(req) ==
  /\ req.method = "OPTIONS"
  /\ res' = IF isStateAPI(req)
            THEN [status |-> 405, kind |-> "control", error |-> "Method not allowed"]
            ELSE [status |-> 204, kind |-> "options"]
  /\ UNCHANGED <<registryVars, inflight>>

\* Server._handleRequest, the OPTIONS branch
HandleOptions(req) ==
  /\ req.method = "OPTIONS"
  /\ res' = [status |-> 204, kind |-> "options"]
  /\ UNCHANGED <<registryVars, inflight>>

\* set-state taking effect when the request arrives, and again at the end
HandleSetStateEager(req, cap) ==
  /\ req.method # "OPTIONS"
  /\ isStateAPI(req)
  /\ req.url = StateUrl /\ req.method = "POST"
  /\ BagCardinality(inflight) < cap
  /\ inflight' = inflight (+) SetToBag({req.body})
  /\ LET data == req.body.data
         states == IF ~req.body.json THEN Arr(<<>>)
                   ELSE IF Truthy(data.state) THEN Arr(<<data.state.v>>)
                   ELSE IF Truthy(data.states) THEN data.states ELSE Arr(<<>>)
     IN  IF states.t # "array" \/ Len(states.v) = 0
         THEN UNCHANGED registryVars
         ELSE /\ currentStates' = setStates(states.v, data.path).currentStates
              /\ currentPath' = setStates(states.v, data.path).currentPath
  /\ UNCHANGED res

\* Server._handleSetState up to _parseBody: the body starts streaming, beside
\* fewer than cap other bodies
HandleSetStateWithin(req, cap) ==
  /\ req.method # "OPTIONS"
  /\ isStateAPI(req)
  /\ req.url = StateUrl /\ req.method = "POST"
  /\ BagCardinality(inflight) < cap
  /\ inflight' = inflight (+) SetToBag({req.body})
  /\ UNCHANGED <<registryVars, res>>

HandleSetState(req) == HandleSetStateWithin(req, MaxInflight)

\* the callback reading `states` first and `state` only when it is absent
SetStateBodyEndStatesFirst(body) ==
  /\ BagIn(body, inflight)
  /\ inflight' = inflight (-) SetToBag({body})
  /\ LET data == body.data
         states == IF Truthy(data.states) /\ Len(data.states.v) > 0 THEN data.states
                   ELSE IF Truthy(data.state) THEN Arr(<<data.state.v>>) ELSE Arr(<<>>)
     IN  IF ~body.json \/ states.t # "array"
         THEN /\ res' = [ status |-> 400, kind |-> "state", error |-> "Invalid JSON",
                          availableStates |-> availableStates ]
              /\ UNCHANGED registryVars
         ELSE IF Len(states.v) = 0
         THEN /\ res' = [ status |-> 400, kind |-> "state",
                          error |-> "Invalid request format" ]
              /\ UNCHANGED registryVars
         ELSE LET r == setStates(states.v, data.path)
              IN  /\ currentStates' = r.currentStates
                  /\ currentPath' = r.currentPath
                  /\ res' = SetStateResponse(r.result)

\* the callback clearing the registry when it rejects the body
SetStateBodyEndClearing(body) ==
  /\ BagIn(body, inflight)
  /\ inflight' = inflight (-) SetToBag({body})
  /\ LET data == body.data
         states == IF Truthy(data.state) THEN Arr(<<data.state.v>>)
                   ELSE IF Truthy(data.states) THEN data.states ELSE Arr(<<>>)
     IN  IF ~body.json \/ states.t # "array" \/ Len(states.v) = 0
         THEN /\ res' = [ status |-> 400, kind |-> "state",
                          error |-> "Invalid request format" ]
              /\ currentStates' = <<>>
              /\ currentPath' = Null
         ELSE LET r == setStates(states.v, data.path)
              IN  /\ currentStates' = r.currentStates
                  /\ currentPath' = r.currentPath
                  /\ res' = SetStateResponse(r.result)

\* the callback of _handleSetState, run when the body has ended
SetStateBodyEnd(body) ==
  /\ BagIn(body, inflight)
  /\ inflight' = inflight (-) SetToBag({body})
  /\ LET data == body.data
         states == IF Truthy(data.state) THEN Arr(<<data.state.v>>)
                   ELSE IF Truthy(data.states) THEN data.states ELSE Arr(<<>>)
     IN  IF ~body.json \/ states.t # "array"
         THEN /\ res' = [ status |-> 400, kind |-> "state", error |-> "Invalid JSON",
                          availableStates |-> availableStates ]
              /\ UNCHANGED registryVars
         ELSE IF Len(states.v) = 0
         THEN /\ res' = [ status |-> 400, kind |-> "state",
                          error |-> "Invalid request format" ]
              /\ UNCHANGED registryVars
         ELSE LET r == setStates(states.v, data.path)
              IN  /\ currentStates' = r.currentStates
                  /\ currentPath' = r.currentPath
                  /\ res' = SetStateResponse(r.result)

\* Server._handleResetState
HandleResetState(req) ==
  /\ req.method # "OPTIONS"
  /\ isStateAPI(req)
  /\ req.url = ResetUrl /\ req.method = "POST"
  /\ currentStates' = reset.currentStates
  /\ currentPath' = reset.currentPath
  /\ res' = [ status |-> 200, kind |-> "reset",
              message |-> "Provider states reset to default behavior" ]
  /\ UNCHANGED inflight

\* Server._handleStateAPI, the 405 branch
HandleMethodNotAllowed(req) ==
  /\ req.method # "OPTIONS"
  /\ isStateAPI(req)
  /\ ~(req.url = StateUrl /\ req.method = "POST")
  /\ ~(req.url = ResetUrl /\ req.method = "POST")
  /\ res' = [status |-> 405, kind |-> "control", error |-> "Method not allowed"]
  /\ UNCHANGED <<registryVars, inflight>>

\* the data path matching a request against the keys it is a prefix of
DataResponsePrefix(states, path, req) ==
  LET routeKey == createRouteKey(req.method, req.url)
      hits == {k \in DOMAIN stateRoutes : StartsWith(k, routeKey)}
  IN  IF hits # {}
      THEN LET routeConfig == findRouteWith(stateRoutes, states, path,
                                            CHOOSE k \in hits : TRUE)
           IN  [ status |-> routeConfig.status, kind |-> "data",
                 headers |-> routeConfig.headers, body |-> routeConfig.body ]
      ELSE [ status |-> 404, kind |-> "data", headers |-> DefaultHeaders,
             body |-> "Not found in Pact contracts or custom routes" ]

\* the response _handleRequest gives a data-path request under a registry value
DataResponseWith(states, path, req) ==
  LET routeKey == createRouteKey(req.method, req.url)
      stateAwareMatch == findRouteWith(stateRoutes, states, path, routeKey)
      routeConfig == IF stateAwareMatch # Null THEN stateAwareMatch
                     ELSE IF routeKey \in DOMAIN routes THEN routes[routeKey] ELSE Null
  IN  IF routeConfig # Null
      THEN [ status |-> routeConfig.status, kind |-> "data",
             headers |-> routeConfig.headers, body |-> routeConfig.body ]
      ELSE [ status |-> 404, kind |-> "data", headers |-> DefaultHeaders,
             body |-> "Not found in Pact contracts or custom routes" ]

\* the response _handleRequest gives a data-path request now
DataResponse(req) == DataResponseWith(currentStates, currentPath, req)

\* the data path resetting the selection after it has answered
HandleDataAutoReset(req) ==
  /\ req.method # "OPTIONS"
  /\ ~isStateAPI(req)
  /\ res' = DataResponse(req)
  /\ currentStates' = <<>>
  /\ currentPath' = Null
  /\ UNCHANGED inflight

\* Server._handleRequest, the data path
HandleData(req) ==
  /\ req.method # "OPTIONS"
  /\ ~isStateAPI(req)
  /\ res' = DataResponse(req)
  /\ UNCHANGED <<registryVars, inflight>>

\* Server._handleRequest
HandleRequest(req) ==
  /\ pc = "listening"
  /\ \/ HandleOptions(req)
     \/ HandleSetState(req)
     \/ HandleResetState(req)
     \/ HandleMethodNotAllowed(req)
     \/ HandleData(req)
  /\ UNCHANGED <<pc, trip, tableVars>>

\* the "end" event registering the requested names as known states
BodyEndRegistering(body) ==
  /\ pc = "listening"
  /\ SetStateBodyEnd(body)
  /\ availableStates' =
       availableStates \cup
         (IF body.json /\ body.data.states.t = "array"
          THEN Range(body.data.states.v) ELSE {})
  /\ UNCHANGED <<pc, pactsDir, thrown, trip, contracts, CUSTOM_ROUTES, routes,
                 customStates, contractStates, stateRoutes>>

\* the "end" event of a streaming set-state body
BodyEnd(body) ==
  /\ pc = "listening"
  /\ SetStateBodyEnd(body)
  /\ UNCHANGED <<pc, trip, tableVars>>

Requests ==
  { [method |-> m, url |-> u, body |-> [json |-> FALSE, data |-> Undefined]] :
      m \in Methods, u \in Urls \ {StateUrl} }
  \cup { [method |-> "POST", url |-> StateUrl, body |-> b] : b \in SetStateBodies }
  \cup { [method |-> m, url |-> StateUrl, body |-> [json |-> TRUE, data |-> NoFields]] :
           m \in Methods \ {"POST"} }

Next ==
  \/ startMockServer
  \/ \E req \in Requests : HandleRequest(req)
  \/ \E body \in SetStateBodies : BodyEnd(body)

Spec == Init /\ [][Next]_vars

\* the server started over pacts directories with failing entries
LoadSpec == InitLoad /\ [][Next]_vars

\* ------------------------------------- set-state bodies with both fields
\* Bodies carrying `state` and `states` together, an empty list, or only
\* unknown names
EdgeBodies ==
  { [json |-> TRUE, data |-> d] : d \in
      { [ state |-> Name("s1"), states |-> Arr(<<"s2">>), path |-> Chars(OrdersPath) ],
        [NoFields EXCEPT !.state = Name("nonexistent state"), !.states = Arr(<<"s1">>)],
        [NoFields EXCEPT !.state = Name(""),
                         !.states = Arr(<<"s2", "nonexistent state">>)],
        [NoFields EXCEPT !.states = Arr(<<>>)],
        [NoFields EXCEPT !.state = Name("nonexistent state"),
                         !.path = Chars(BatchPath)] } }

EdgeRequests ==
  { [method |-> "POST", url |-> StateUrl, body |-> b] : b \in EdgeBodies }
  \cup { [method |-> m, url |-> u, body |-> [json |-> FALSE, data |-> Undefined]] :
           m \in {"GET"}, u \in {ProductsPath, BatchPath} }
  \cup { [method |-> "POST", url |-> ResetUrl,
           body |-> [json |-> FALSE, data |-> Undefined]] }

EdgeNext ==
  \/ startMockServer
  \/ \E req \in EdgeRequests : HandleRequest(req)
  \/ \E body \in EdgeBodies : BodyEnd(body)

\* the server receiving the bodies of EdgeBodies
EdgeSpec == Init /\ [][EdgeNext]_vars

\* ------------------------------------------------ variants of one key
VariantBodies ==
  { [json |-> TRUE, data |-> [NoFields EXCEPT !.states = Arr(<<"s2", "s1">>)]] }

VariantRequests ==
  { [method |-> "POST", url |-> StateUrl, body |-> b] : b \in VariantBodies }
  \cup { [method |-> "GET", url |-> u, body |-> [json |-> FALSE, data |-> Undefined]] :
           u \in {ProductsPath, BatchPath} }
  \cup { [method |-> "POST", url |-> ResetUrl,
           body |-> [json |-> FALSE, data |-> Undefined]] }

VariantNext ==
  \/ startMockServer
  \/ \E req \in VariantRequests : HandleRequest(req)
  \/ \E body \in VariantBodies : BodyEnd(body)

\* the server over the tables of InitVariants
VariantSpec == InitVariants /\ [][VariantNext]_vars

\* ------------------------------------------- a set, reset, set sequence
\* POST /api/mock-server/state with the given body
StateRequest(body) == [method |-> "POST", url |-> StateUrl, body |-> body]

\* POST /api/mock-server/reset
ResetRequest ==
  [method |-> "POST", url |-> ResetUrl, body |-> [json |-> FALSE, data |-> Undefined]]

\* the body {"state": s}
SingleState(s) == [json |-> TRUE, data |-> [NoFields EXCEPT !.state = Name(s)]]

\* the response to every data-path request under a registry value
Responses(states, path) ==
  [d \in {req \in Requests : req.method # "OPTIONS" /\ ~isStateAPI(req)} |->
     DataResponseWith(states, path, d)]

\* an earlier selection: any set-state request, sent ...
TripPrelude ==
  /\ pc = "listening"
  /\ trip.step = "none"
  /\ \E body \in SetStateBodies : HandleSetState(StateRequest(body))
  /\ trip' = [trip EXCEPT !.step = "prelude"]
  /\ UNCHANGED <<pc, tableVars>>

\* ... and completed
TripPreludeEnd ==
  /\ pc = "listening"
  /\ trip.step = "prelude"
  /\ \E body \in SetStateBodies : SetStateBodyEnd(body)
  /\ trip' = [trip EXCEPT !.step = "none", !.selected = TRUE]
  /\ UNCHANGED <<pc, tableVars>>

\* the first {"state": s} request for a known state s
TripFirstSet ==
  /\ pc = "listening"
  /\ trip.step = "none"
  /\ \E s \in availableStates :
       /\ HandleSetState(StateRequest(SingleState(s)))
       /\ trip' = [trip EXCEPT !.step = "first sent", !.state = s]
  /\ UNCHANGED <<pc, tableVars>>

\* its completion; the responses now chosen are recorded
TripFirstEnd ==
  /\ pc = "listening"
  /\ trip.step = "first sent"
  /\ SetStateBodyEnd(SingleState(trip.state))
  /\ trip' = [trip EXCEPT !.step = "first done",
                          !.first = Responses(currentStates', currentPath')]
  /\ UNCHANGED <<pc, tableVars>>

\* the reset
TripReset ==
  /\ pc = "listening"
  /\ trip.step = "first done"
  /\ HandleResetState(ResetRequest)
  /\ trip' = [trip EXCEPT !.step = "reset done"]
  /\ UNCHANGED <<pc, tableVars>>

\* the second {"state": s} request
TripSecondSet ==
  /\ pc = "listening"
  /\ trip.step = "reset done"
  /\ HandleSetState(StateRequest(SingleState(trip.state)))
  /\ trip' = [trip EXCEPT !.step = "second sent"]
  /\ UNCHANGED <<pc, tableVars>>

\* its completion
TripSecondEnd ==
  /\ pc = "listening"
  /\ trip.step = "second sent"
  /\ SetStateBodyEnd(SingleState(trip.state))
  /\ trip' = [trip EXCEPT !.step = "second done"]
  /\ UNCHANGED <<pc, tableVars>>

TripNext ==
  \/ startMockServer
  \/ TripPrelude
  \/ TripPreludeEnd
  \/ TripFirstSet
  \/ TripFirstEnd
  \/ TripReset
  \/ TripSecondSet
  \/ TripSecondEnd

\* the server driven through setStates([s]); reset(); setStates([s])
TripSpec == Init /\ [][TripNext]_vars

\* ------------------------------------------- overlapping control requests
OverlapBodies ==
  { SingleState("s1"),
    [json |-> TRUE, data |-> [NoFields EXCEPT !.states = Arr(<<"s2", "s1">>),
                                              !.path = Chars(BatchPath)]],
    [json |-> TRUE, data |-> [NoFields EXCEPT !.states = Arr(<<>>)]] }

\* a set-state request arrives and its body starts streaming
OverlapSetState ==
  /\ pc = "listening"
  /\ Len(trip.effects) < MaxEffects
  /\ \E body \in OverlapBodies :
       /\ HandleSetStateWithin(StateRequest(body), MaxOverlap)
       /\ trip' = [trip EXCEPT !.effects = Append(@, [op |-> "sent", body |-> body])]
  /\ UNCHANGED <<pc, tableVars>>

\* a reset request arrives
OverlapReset ==
  /\ pc = "listening"
  /\ Len(trip.effects) < MaxEffects
  /\ HandleResetState(ResetRequest)
  /\ trip' = [trip EXCEPT !.effects = Append(@, [op |-> "reset", body |-> ResetRequest.body])]
  /\ UNCHANGED <<pc, tableVars>>

\* a streaming body ends
OverlapBodyEnd ==
  /\ pc = "listening"
  /\ Len(trip.effects) < MaxEffects
  /\ \E body \in OverlapBodies :
       /\ SetStateBodyEnd(body)
       /\ trip' = [trip EXCEPT !.effects = Append(@, [op |-> "end", body |-> body])]
  /\ UNCHANGED <<pc, tableVars>>

InitOverlap ==
  /\ pactsDir \in PrecedenceDirs
  /\ CUSTOM_ROUTES = <<StatefulSuccessCustomRoute, NoStateCustomRoute>>
  /\ Fresh

OverlapNext ==
  \/ startMockServer
  \/ OverlapSetState
  \/ OverlapReset
  \/ OverlapBodyEnd

\* the server receiving set-state and reset requests that overlap
OverlapSpec == InitOverlap /\ [][OverlapNext]_vars

\* ================================================================ claims
Keys == DOMAIN stateRoutes

\* the request path of a route key: what follows the method and its ":"
PathOfKey(k) == SubSeq(k, 3, Len(k))

DataRequests == {req \in Requests : req.method # "OPTIONS" /\ ~isStateAPI(req)}

\* a set-state body that parses and names at least one state
WellFormed(body) ==
  /\ body.json
  /\ \/ Truthy(body.data.state)
     \/ body.data.states.t = "array" /\ Len(body.data.states.v) > 0

\* the list of names a well-formed body requests
RequestedNames(body) ==
  IF Truthy(body.data.state) THEN <<body.data.state.v>> ELSE body.data.states.v

RECURSIVE KnownSubseq(_)
KnownSubseq(names) ==
  IF names = <<>> THEN <<>>
  ELSE (IF Head(names) \in availableStates THEN <<Head(names)>> ELSE <<>>)
       \o KnownSubseq(Tail(names))

RECURSIVE UnknownSubseq(_)
UnknownSubseq(names) ==
  IF names = <<>> THEN <<>>
  ELSE (IF Head(names) \in availableStates THEN <<>> ELSE <<Head(names)>>)
       \o UnknownSubseq(Tail(names))

Declares(k, name) == \E i \in DOMAIN stateRoutes[k] : name \in Range(stateRoutes[k][i].states)

\* the lookup for key k runs default selection: no active state, or k out of scope
TreatedAsDefault(k) ==
  \/ currentStates = <<>>
  \/ Truthy(currentPath) /\ ~StartsWith(PathOfKey(k), currentPath.v)

\* the response of key k on a freshly started server
FreshRoute(k) == findRouteWith(stateRoutes, <<>>, Null, k)

\* C1: every name held in activeStates (currentStates) is a member of
\* allKnownStates (availableStates); an unknown name is never stored.
C1_ActiveStatesKnown ==
  \A i \in DOMAIN currentStates : currentStates[i] \in availableStates

\* a set-state call that rejected a name and admitted another
C1_Witness ==
  /\ res.kind = "state" /\ res.status = 200
  /\ "warnings" \in DOMAIN res
  /\ currentStates # <<>>

\* C2: after setStates(names, scopePath?) activeStates is exactly the
\* subsequence of names that are known, in request order, replacing the
\* previous selection, and activeScopePath is the supplied scope path, or none
\* when it was omitted.
C2_SetStatesReplaces ==
  [][\A body \in SetStateBodies :
       (BodyEnd(body) /\ WellFormed(body)) =>
         /\ currentStates' = KnownSubseq(RequestedNames(body))
         /\ currentPath' = IF body.data.path = Undefined THEN Null ELSE body.data.path
    ]_vars

\* a set-state call with a scope path has been applied
C2_Witness ==
  /\ res.kind = "state" /\ res.status = 200
  /\ currentStates = <<"s2", "s1">>
  /\ currentPath = Chars(BatchPath)

C4_PriorityOverRegistration ==
  pc = "listening" => \A k \in Keys :
    ( /\ Len(currentStates) = 2
      /\ currentStates[1] # currentStates[2]
      /\ Declares(k, currentStates[1])
      /\ Declares(k, currentStates[2])
      /\ (currentPath = Null \/ StartsWith(PathOfKey(k), currentPath.v)) )
    => \E i \in DOMAIN stateRoutes[k] :
         /\ currentStates[1] \in Range(stateRoutes[k][i].states)
         /\ findRoute(k) = stateRoutes[k][i].routeConfig

\* C5: when default selection runs for a key that has a no-state variant (of
\* either origin), the response is that of a no-state variant.
C5_DefaultPrefersNoState ==
  pc = "listening" => \A k \in Keys :
    ( /\ TreatedAsDefault(k)
      /\ \E i \in DOMAIN stateRoutes[k] : HasNoState(stateRoutes[k][i]) )
    => \E i \in DOMAIN stateRoutes[k] :
         /\ HasNoState(stateRoutes[k][i])
         /\ findRoute(k) = stateRoutes[k][i].routeConfig

\* the eligible subset of default selection: the no-state variants if any
\* exist, otherwise all variants
Eligible(options) ==
  IF SelectSeq(options, HasNoState) # <<>> THEN SelectSeq(options, HasNoState)
  ELSE options

\* C6: default selection returns the first 2xx variant of the eligible subset,
\* or the first variant of that subset when none is 2xx.
C6_DefaultFirstSuccess ==
  pc = "listening" => \A k \in Keys :
    TreatedAsDefault(k) =>
      LET e == Eligible(stateRoutes[k])
          ok == SelectSeq(e, IsSuccess)
      IN  findRoute(k) = IF ok # <<>> THEN ok[1].routeConfig ELSE e[1].routeConfig

\* C7: with a scope path set, every route key whose path does not start with
\* the scope path gets its default-selection response, the one it gets with
\* activeStates empty, even if it declares an active state.
C7_ScopeIsolation ==
  \A k \in Keys :
    (Truthy(currentPath) /\ ~StartsWith(PathOfKey(k), currentPath.v))
      => findRoute(k) = FreshRoute(k)

\* a scoped selection is active and a key outside the scope has a variant
\* declaring the first active state whose response is not the one served
C7_Witness ==
  /\ Truthy(currentPath) /\ currentStates # <<>>
  /\ \E k \in Keys :
       /\ ~StartsWith(PathOfKey(k), currentPath.v)
       /\ \E i \in DOMAIN stateRoutes[k] :
            /\ currentStates[1] \in Range(stateRoutes[k][i].states)
            /\ stateRoutes[k][i].routeConfig # findRoute(k)

\* C8: for a key none of whose variants declares any active state, the
\* response is the default-selection response it gets with activeStates empty.
C8_IrrelevantStatesIgnored ==
  \A k \in Keys :
    (\A i \in DOMAIN stateRoutes[k] :
       Range(stateRoutes[k][i].states) \cap Range(currentStates) = {})
      => findRoute(k) = FreshRoute(k)

\* active states reach the matching loop of a key that declares none of them
\* and whose default response is not its first variant
C8_Witness ==
  /\ currentStates # <<>>
  /\ \E k \in Keys :
       /\ \A i \in DOMAIN stateRoutes[k] :
            Range(stateRoutes[k][i].states) \cap Range(currentStates) = {}
       /\ currentPath # Null => StartsWith(PathOfKey(k), currentPath.v)
       /\ findRoute(k) # stateRoutes[k][1].routeConfig

\* C9: after reset, activeStates is empty, activeScopePath is none and every
\* data-path request gets the response of a freshly started server.
C9_ResetRestoresFresh ==
  res.kind = "reset" =>
    /\ currentStates = <<>>
    /\ currentPath = Null
    /\ \A req \in DataRequests : DataResponse(req) = DataResponseWith(<<>>, Null, req)

\* a reset has been answered on a server that knows provider states
C9_Witness ==
  /\ res.kind = "reset" /\ res.status = 200
  /\ availableStates # {}
  /\ currentStates = <<>>

\* C10: a reset that follows a reset leaves the registry and the response to
\* every data-path request as the first reset left them.
C10_ResetIdempotent ==
  [][\A req \in Requests :
       ( /\ req.url = ResetUrl /\ req.method = "POST"
         /\ res.kind = "reset"
         /\ HandleRequest(req) )
       => /\ currentStates' = currentStates
          /\ currentPath' = currentPath
          /\ \A d \in DataRequests :
               DataResponseWith(currentStates', currentPath', d) = DataResponse(d)
    ]_vars

\* the state after a reset, in which a second reset can be handled, while a
\* set-state body is still streaming
C10_Witness ==
  /\ res.kind = "reset"
  /\ pc = "listening"
  /\ inflight # EmptyBag
  /\ currentPath = Null

\* a set-state body that is not valid JSON, or is JSON carrying neither a
\* `state` nor a `states` value
Malformed(body) ==
  \/ ~body.json
  \/ body.data.state = Undefined /\ body.data.states = Undefined

\* C13: a malformed set-state body (invalid JSON, or JSON with neither `state`
\* nor `states`) is answered 400 and leaves activeStates (currentStates) and
\* activeScopePath (currentPath) as they were.
C13_MalformedBodyRejected ==
  [][\A body \in SetStateBodies :
       (BodyEnd(body) /\ Malformed(body)) =>
         /\ res'.status = 400
         /\ currentStates' = currentStates
         /\ currentPath' = currentPath
    ]_vars

\* a body has been rejected with 400 while a scoped selection is active
C13_Witness ==
  /\ res.kind = "state" /\ res.status = 400
  /\ currentStates # <<>>
  /\ Truthy(currentPath)

\* C14: activeStates and activeScopePath change only in the completion of a
\* well-formed POST /api/mock-server/state and in a POST /api/mock-server/reset;
\* data-path requests (matched or 404), OPTIONS requests and the 405 and 400
\* answers of the control endpoints leave both unchanged.
C14_OnlyControlCallsMutate ==
  [][ registryVars' # registryVars =>
        /\ \/ \E body \in SetStateBodies : WellFormed(body) /\ BodyEnd(body)
           \/ \E req \in Requests :
                req.url = ResetUrl /\ req.method = "POST" /\ HandleRequest(req)
        /\ \A req \in Requests :
             ~(req.url = ResetUrl /\ req.method = "POST") => ~HandleRequest(req)
        /\ \A body \in SetStateBodies : res'.status = 400 => ~BodyEnd(body)
    ]_vars

\* a matched data-path request has been answered while a selection is active
C14_Witness ==
  /\ res.kind = "data" /\ res.status # 404
  /\ currentStates # <<>>

\* the not-found payload of the data path
NotFoundResponse ==
  [ status |-> 404, kind |-> "data", headers |-> DefaultHeaders,
    body |-> "Not found in Pact contracts or custom routes" ]

\* C15: a data-path request is answered from the route table exactly when its
\* upper-cased method and its exact path equal a loaded key; a path that is a
\* prefix or an extension of a loaded one is not matched, and every unmatched
\* request gets the 404 not-found payload.
C15_ExactKeyMatch ==
  pc = "listening" => \A d \in DataRequests :
    LET k == <<ToUpperCase(d.method), ":">> \o d.url
    IN  IF k \in Keys
        THEN \E i \in DOMAIN stateRoutes[k] :
               LET rc == stateRoutes[k][i].routeConfig
               IN  DataResponse(d) = [ status |-> rc.status, kind |-> "data",
                                       headers |-> rc.headers, body |-> rc.body ]
        ELSE DataResponse(d) = NotFoundResponse

\* a request has been answered 404 by a server whose table holds a key of
\* which a requested path (OrdersPath) is a proper prefix
C15_Witness ==
  /\ res = NotFoundResponse
  /\ \E k \in Keys : PathOfKey(k) = BatchPath
  /\ createRouteKey("GET", OrdersPath) \notin Keys

\* the requests to the two control URLs
ControlRequests == {req \in Requests : req.url \in {StateUrl, ResetUrl}}

\* C16 as stated: every request to a control URL whose verb is not POST, the
\* verb OPTIONS included, is answered 405 {"error": "Method not allowed"} and
\* changes nothing in the registry.
C16_NonPostIs405 ==
  [][\A req \in ControlRequests :
       (req.method # "POST" /\ HandleRequest(req))
       => /\ res'.status = 405
          /\ res'.error = "Method not allowed"
          /\ registryVars' = registryVars
    ]_vars

\* C16 amended: every request to a control URL whose verb is neither POST nor
\* OPTIONS is answered 405 {"error": "Method not allowed"} and changes nothing
\* in the registry.
C16_NonPostNonOptionsIs405 ==
  [][\A req \in ControlRequests :
       (req.method \notin {"POST", "OPTIONS"} /\ HandleRequest(req))
       => /\ res'.status = 405
          /\ res'.error = "Method not allowed"
          /\ registryVars' = registryVars
          /\ inflight' = inflight
    ]_vars

\* a 405 has been answered while a selection is active
C16_Witness ==
  /\ res.status = 405 /\ res.kind = "control"
  /\ currentStates # <<>>

\* the OPTIONS requests, one for every path
OptionsRequests == {req \in Requests : req.method = "OPTIONS"}

\* C17: every OPTIONS request, for every path (the control paths included),
\* is answered 204 with an empty body before the matching engine and the
\* control handlers are consulted: the answer does not depend on the registry
\* and the registry is left unchanged.
C17_OptionsShortCircuit ==
  [][\A req \in OptionsRequests :
       HandleRequest(req) =>
         /\ res' = [status |-> 204, kind |-> "options"]
         /\ registryVars' = registryVars
         /\ inflight' = inflight
    ]_vars

\* an OPTIONS request has been answered while a selection is active and a
\* set-state body is streaming
C17_Witness ==
  /\ res.kind = "options"
  /\ currentStates # <<>>
  /\ inflight # EmptyBag

\* C18: contract loading, table building and conflict validation are complete
\* before the listener opens (no response is written before it is listening,
\* and the table it listens with is the one built from all the input), and
\* from then on the route table, allKnownStates (availableStates) and the
\* per-origin state sets never change.
C18_LoadBeforeServe ==
  [][ /\ res' # res => pc = "listening"
      /\ inflight' # inflight => pc = "listening"
      /\ (pc = "starting" /\ pc' = "listening") =>
           <<routes', availableStates', customStates', contractStates', stateRoutes'>>
             = LET tb == buildRoutes(contracts', CUSTOM_ROUTES')
               IN  <<tb.routes, tb.availableStates, tb.customStates,
                     tb.contractStates, tb.stateRoutes>>
      /\ pc # "starting" =>
           /\ pc' = pc
           /\ <<routes', availableStates', customStates', contractStates', stateRoutes'>>
                = <<routes, availableStates, customStates, contractStates, stateRoutes>>
    ]_vars

\* a set-state call naming an unknown state has been served from a non-empty
\* table
C18_Witness ==
  /\ pc = "listening"
  /\ res.kind = "state" /\ "warnings" \in DOMAIN res
  /\ stateRoutes # <<>>
  /\ availableStates # {}

\* the registry values a single call can write: the pair of reset, and the
\* pair of each well-formed set-state body
CallPairs ==
  {<<(<<>>), Null>>}
  \cup { <<KnownSubseq(RequestedNames(body)),
           IF body.data.path = Undefined THEN Null ELSE body.data.path>> :
           body \in {b \in SetStateBodies : WellFormed(b)} }

\* C19: under every interleaving of requests and streaming set-state bodies,
\* the activeStates/activeScopePath pair a lookup reads was written by one
\* set-state or reset call: never the states of one call with the scope of
\* another.
C19_ConsistentPair ==
  <<currentStates, currentPath>> \in CallPairs

\* a data-path request has been answered under a scoped selection while
\* another set-state body is streaming
C19_Witness ==
  /\ res.kind = "data"
  /\ currentStates # <<>>
  /\ Truthy(currentPath)
  /\ inflight # EmptyBag

\* key k has a custom-origin variant and a contract-origin variant whose
\* state lists share a name
Overlapping(k) ==
  \E i, j \in DOMAIN stateRoutes[k] :
    /\ stateRoutes[k][i].isCustom
    /\ ~stateRoutes[k][j].isCustom
    /\ Range(stateRoutes[k][i].states) \cap Range(stateRoutes[k][j].states) # {}

\* the names shared by some custom-origin and some contract-origin variant of k
SharedNames(k) ==
  UNION { Range(stateRoutes[k][i].states) \cap Range(stateRoutes[k][j].states) :
            <<i, j>> \in { <<i, j>> \in (DOMAIN stateRoutes[k]) \X (DOMAIN stateRoutes[k]) :
                             stateRoutes[k][i].isCustom /\ ~stateRoutes[k][j].isCustom } }

\* C12: the server is listening only if no route key has a custom-origin and a
\* contract-origin variant sharing a state name; when such a key exists
\* startup aborts with an error that names each such key with its shared
\* state names, and no request is ever answered from that table.
C12_ConflictsHaltStartup ==
  /\ pc = "listening" => thrown = Null /\ \A k \in Keys : ~Overlapping(k)
  /\ (pc # "starting" /\ \E k \in Keys : Overlapping(k)) =>
       /\ pc = "crashed"
       /\ thrown # Null
       /\ {c.route : c \in thrown.conflicts} = {k \in Keys : Overlapping(k)}
       /\ \A k \in Keys : Overlapping(k) =>
            UNION {c.conflictingStates : c \in {x \in thrown.conflicts : x.route = k}}
              = SharedNames(k)
       /\ \A c \in thrown.conflicts : c.conflictingStates # {}
       /\ res = NoResponse
       /\ inflight = EmptyBag
       /\ currentStates = <<>>

\* startup has aborted on a key whose contract variants declare two states,
\* the second of which a custom variant declares too
C12_Witness ==
  /\ pc = "crashed"
  /\ \E k \in Keys :
       /\ Overlapping(k)
       /\ Len(stateRoutes[k]) = 3
       /\ ~stateRoutes[k][1].isCustom
       /\ Range(stateRoutes[k][1].states) \cap SharedNames(k) = {}

\* the contracts of every file that parses, inside every provider directory
\* that can be read, in directory order
RECURSIVE ParsableContracts(_)
ParsableContracts(entries) ==
  IF entries = <<>> THEN <<>>
  ELSE LET e == Head(entries)
           ok(f) == f.json /\ f.parses
           good == IF e.stat = "dir" /\ e.readable THEN SelectSeq(e.files, ok) ELSE <<>>
       IN  [i \in DOMAIN good |-> good[i].contract] \o ParsableContracts(Tail(entries))

\* C20: contract loading recovers locally from every load failure: it returns
\* exactly the contracts of the files that parse inside the provider
\* directories that can be read, whatever other file, entry or directory
\* fails; with the top-level directory missing it returns the empty list and
\* the server still starts and serves the custom routes.
C20_LoadRecoversLocally ==
  pc # "starting" =>
    /\ contracts = ParsableContracts(pactsDir.entries)
    /\ ~pactsDir.exists =>
         /\ contracts = <<>>
         /\ pc = "listening"
         /\ \A i \in DOMAIN CUSTOM_ROUTES :
              createRouteKey(CUSTOM_ROUTES[i].method, CUSTOM_ROUTES[i].path) \in Keys

\* C11: for every known state s and every route key, the response chosen
\* after setStates([s]); reset(); setStates([s]) is the response that was
\* chosen after the first setStates([s]), whatever was selected before it.
C11_RoundTrip ==
  trip.step = "second done" =>
    \A d \in DataRequests : DataResponse(d) = trip.first[d]

\* the sequence has completed after an earlier selection, for a state that
\* changes the response of some request
C11_Witness ==
  /\ trip.step = "second done"
  /\ trip.selected
  /\ \E d \in DataRequests : DataResponse(d) # DataResponseWith(<<>>, Null, d)

\* C21: whatever the interactions of the parsed contract files contain (an
\* interaction lacking a request, a method or a response included), startup
\* either reaches the listening state or halts because validateNoConflicts
\* found a conflict; nothing else stops the process.
C21_OnlyConflictsHalt ==
  pc # "starting" =>
    \/ pc = "listening"
    \/ /\ thrown # Null
       /\ thrown.message = "Custom route conflicts detected"

\* the key's path starts with the scope path, or no scope is set
InScope(k) == ~Truthy(currentPath) \/ StartsWith(PathOfKey(k), currentPath.v)

\* the positions of activeStates whose name some variant of k declares
DeclaredAt(k) == {p \in DOMAIN currentStates : Declares(k, currentStates[p])}

\* C24: for every route key in scope and every non-empty activeStates of which
\* the key declares a name, the response is that of the first variant, in
\* registration order, declaring the earliest name of activeStates that any
\* variant of the key declares.
C24_StateMatchingFunction ==
  pc = "listening" => \A k \in Keys :
    (InScope(k) /\ DeclaredAt(k) # {}) =>
      LET p == CHOOSE q \in DeclaredAt(k) : \A o \in DeclaredAt(k) : q <= o
          declaring == {i \in DOMAIN stateRoutes[k] :
                          currentStates[p] \in Range(stateRoutes[k][i].states)}
          first == CHOOSE i \in declaring : \A j \in declaring : i <= j
      IN  findRoute(k) = stateRoutes[k][first].routeConfig

\* C25: with activeStates non-empty and a scope path set, every route key
\* whose whole request path starts with the scope path (a path holding a ':'
\* included) is matched exactly as if no scope were set.
C25_ScopeComparesWholePath ==
  pc = "listening" => \A k \in Keys :
    ( /\ currentStates # <<>>
      /\ Truthy(currentPath)
      /\ StartsWith(PathOfKey(k), currentPath.v) )
    => findRoute(k) = findRouteWith(stateRoutes, currentStates, Null, k)

\* C27: for every route key, findRoute returns a descriptor exactly when the
\* flat routes map has an entry for the key, so the response to every
\* data-path request is the matching engine's choice and the flat map's
\* last-registered entry is never served in its place.
C27_FlatMapNeverDecides ==
  pc = "listening" =>
    /\ DOMAIN routes = DOMAIN stateRoutes
    /\ \A d \in DataRequests :
         LET k == createRouteKey(d.method, d.url)
             chosen == findRoute(k)
         IN  /\ chosen # Null <=> k \in DOMAIN routes
             /\ chosen # Null =>
                  DataResponse(d) = [ status |-> chosen.status, kind |-> "data",
                                      headers |-> chosen.headers, body |-> chosen.body ]

\* a data-path request has been answered with the engine's choice for a key
\* whose flat-map entry is another variant
C27_Witness ==
  /\ pc = "listening"
  /\ res.kind = "data" /\ res.status # 404
  /\ \E k \in Keys :
       /\ routes[k] # findRoute(k)
       /\ res.body = findRoute(k).body
       /\ res.body # routes[k].body

\* the data-path requests of EdgeSpec
EdgeDataRequests == {req \in EdgeRequests : ~isStateAPI(req)}

C29_AllRejectedActsAsReset ==
  [][\A body \in EdgeBodies :
       ( /\ BodyEnd(body)
         /\ WellFormed(body)
         /\ \A i \in DOMAIN RequestedNames(body) :
              RequestedNames(body)[i] \notin availableStates )
       => \A d \in EdgeDataRequests :
            DataResponseWith(currentStates', currentPath', d)
              = DataResponseWith(<<>>, Null, d)
    ]_vars

\* an all-rejected request that supplied a scope path has been applied on a
\* server with stateful variants
C29_Witness ==
  /\ res.kind = "state" /\ res.status = 200 /\ res.validStates = <<>>
  /\ currentStates = <<>>
  /\ Truthy(currentPath)
  /\ \E k \in Keys : \E i \in DOMAIN stateRoutes[k] :
       /\ stateRoutes[k][i].states # <<>>
       /\ FreshRoute(k) # stateRoutes[k][i].routeConfig

\* C30: when a body carries a non-empty `state` and a `states` list, only
\* `state` is used: activeStates becomes [state] if it is known and empty
\* otherwise, and the names of `states` are neither activated nor warned
\* about; `states` is used only when `state` is absent or falsy; an empty
\* `states` with no `state` is answered 400 and changes nothing.
C30_StateWinsOverStates ==
  [][\A body \in EdgeBodies :
       BodyEnd(body) =>
         LET state == body.data.state
             states == body.data.states
         IN  IF state # Undefined /\ state.v # ""
             THEN /\ currentStates' =
                       IF state.v \in availableStates THEN <<state.v>> ELSE <<>>
                  /\ res'.status = 200
                  /\ res'.validStates = currentStates'
                  /\ IF state.v \in availableStates
                     THEN "warnings" \notin DOMAIN res'
                     ELSE res'.warnings =
                            <<state.v \o " not found in contracts or custom routes">>
             ELSE IF states # Undefined /\ states.v # <<>>
             THEN /\ currentStates' = KnownSubseq(states.v)
                  /\ res'.status = 200
             ELSE /\ res'.status = 400
                  /\ registryVars' = registryVars
    ]_vars

\* a body with `state` s1 and `states` [s2] has been applied where s2 is known
C30_Witness ==
  /\ res.kind = "state" /\ res.status = 200
  /\ res.validStates = <<"s1">>
  /\ "warnings" \notin DOMAIN res
  /\ currentStates = <<"s1">>
  /\ currentPath = Chars(OrdersPath)
  /\ "s2" \in availableStates

\* two variants of the same default-preference rank: both no-state (2xx or
\* not), or both stateful with a 2xx status
SameRank(c, d) ==
  \/ HasNoState(c) /\ HasNoState(d)
  \/ ~HasNoState(c) /\ ~HasNoState(d) /\ IsSuccess(c) /\ IsSuccess(d)

\* descriptor rc is that of a contract-origin variant of key k
FromContract(k, rc) ==
  \E i \in DOMAIN stateRoutes[k] :
    ~stateRoutes[k][i].isCustom /\ stateRoutes[k][i].routeConfig = rc

\* variant v qualifies within the eligible subset e: it is 2xx, or e has no 2xx
Qualifies(e, v) == SelectSeq(e, IsSuccess) # <<>> => IsSuccess(v)

DeclaredNames(x) ==
  (IF x.providerState.t = "string" /\ x.providerState.v # ""
   THEN {x.providerState.v} ELSE {})
  \cup (IF x.providerStates.t = "array"
        THEN {o.name.v : o \in {q \in Range(x.providerStates.v) :
                                  q.name.t = "string" /\ q.name.v # ""}}
        ELSE {})

\* C26: the variant registered for an interaction has as state set exactly
\* the names the interaction declares, whichever shape declares them (single
\* name field or list of name-bearing objects), and these names are in
\* allKnownStates; an interaction declaring no name in either shape gets the
\* empty state set, and list entries without a name are ignored.
C26_ShapeIndependentNames ==
  pc = "listening" =>
    /\ \A c \in DOMAIN contracts : \A i \in DOMAIN contracts[c].interactions :
         LET x == contracts[c].interactions[i]
             k == <<ToUpperCase(x.request.method), ":">> \o x.request.path
         IN  /\ k \in Keys
             /\ DeclaredNames(x) \subseteq availableStates
             /\ \E v \in DOMAIN stateRoutes[k] :
                  /\ ~stateRoutes[k][v].isCustom
                  /\ stateRoutes[k][v].routeConfig.body = x.response.body
                  /\ Range(stateRoutes[k][v].states) = DeclaredNames(x)
                  /\ Len(stateRoutes[k][v].states) = Cardinality(DeclaredNames(x))
    /\ contractStates =
         UNION { DeclaredNames(contracts[c].interactions[i]) :
                   <<c, i>> \in { <<c, i>> \in (DOMAIN contracts) \X (1..(MaxInteractions + 1)) :
                                    i \in DOMAIN contracts[c].interactions } }

\* a key has a variant from the single-name shape and one from a list holding
\* a nameless entry, with the same state set
C26_Witness ==
  /\ pc = "listening"
  /\ \E c \in DOMAIN contracts : \E i, j \in DOMAIN contracts[c].interactions :
       LET x == contracts[c].interactions[i]
           y == contracts[c].interactions[j]
           k == createRouteKey(x.request.method, x.request.path)
       IN  /\ x.providerState = Name("s1")
           /\ y.providerStates.t = "array" /\ Len(y.providerStates.v) = 2
           /\ stateRoutes[k][i].states = <<"s1">>
           /\ stateRoutes[k][j].states = <<"s1">>
  /\ "s1" \in availableStates

\* the registry after the call a control event makes, from the registry prev:
\* reset() for a reset, setStates(states, path) for the end of a body naming
\* states, nothing for an arrival or for a body answered 400
AfterCall(e, prev) ==
  IF e.op = "reset" THEN reset
  ELSE IF e.op = "sent" THEN prev
  ELSE LET data == e.body.data
           states == IF Truthy(data.state) THEN Arr(<<data.state.v>>)
                     ELSE IF Truthy(data.states) THEN data.states ELSE Arr(<<>>)
       IN  IF ~e.body.json \/ states.t # "array" \/ Len(states.v) = 0 THEN prev
           ELSE [ currentStates |-> setStates(states.v, data.path).currentStates,
                  currentPath |-> setStates(states.v, data.path).currentPath ]

\* the calls of a sequence of control events, run one after the other
RECURSIVE Sequentially(_)
Sequentially(effects) ==
  IF effects = <<>> THEN reset
  ELSE AfterCall(effects[Len(effects)],
                 Sequentially(SubSeq(effects, 1, Len(effects) - 1)))

\* C28: after any interleaving of overlapping control requests the registry
\* equals the result of running their calls one after the other in the order
\* they took effect, a set-state at the end of its body and a reset at its
\* arrival; so a reset arriving while a body streams is overwritten when that
\* body ends.
C28_ControlCallsSerialized ==
  pc = "listening" =>
    [currentStates |-> currentStates, currentPath |-> currentPath]
      = Sequentially(trip.effects)

\* a body naming a known state started streaming, a reset arrived, the body
\* ended: its states are active
C28_Witness ==
  /\ pc = "listening"
  /\ Len(trip.effects) = 3
  /\ trip.effects[1].op = "sent"
  /\ trip.effects[2].op = "reset"
  /\ trip.effects[3] = [op |-> "end", body |-> trip.effects[1].body]
  /\ currentStates # <<>>
  /\ inflight = EmptyBag

====
